---- MODULE Spec2Model ----
(***************************************************************************)
(* Model of src/api/managed-records.js: the retrieve() promise chain and    *)
(* the pure helpers it is built from (buildUrlOpts, calcOffset,             *)
(* isPrimeColor, verifyStatus, getRecords, getIds, filterOpenRecs,          *)
(* getClosedPrime, formatFinal, retrievePromise).                           *)
(*                                                                          *)
(* Spec        one retrieve() call, one promise-chain step per action.      *)
(* FairSpec    Spec plus weak fairness of the queued callbacks.             *)
(* FormatSpec  formatFinal as a pure function over bounded inputs.          *)
(***************************************************************************)
EXTENDS Integers, Sequences, FiniteSets, TLC

\* ------------------------------------------------------------------ bounds
MaxPage == 3
MaxLimit == 2
MaxLen == 3
MaxOptLimit == 2
MaxRespLen == 11

\* -------------------------------------------------------- JavaScript values
JSUndefined == [t |-> "undefined", v |-> 0]
JSNull == [t |-> "null", v |-> 0]
Num(n) == [t |-> "number", v |-> n]

\* ToNumber on the values the options can hold (undefined never reaches it:
\* the default parameters replace it first).
ToNumber(x) == IF x.t = "number" THEN x.v ELSE 0

\* ToBoolean, as used by `options.page || 1`.
Truthy(x) == x.t = "number" /\ x.v # 0

\* A default parameter replaces undefined only.
Default(x, d) == IF x.t = "undefined" THEN d ELSE x

Min(a, b) == IF a <= b THEN a ELSE b
Max(a, b) == IF a >= b THEN a ELSE b

\* --------------------------------------------------------------- defaults
defaults_colors == <<"red", "brown", "blue", "yellow", "green">>
defaults_limit == 10

ColorsUndefined == [t |-> "undefined", v |-> <<>>]
ColorsOf(cs) == [t |-> "array", v |-> cs]

\* ---------------------------------------------------------- Query Builder
calcOffset(page, limit) ==
    (ToNumber(Default(page, Num(1))) - 1) * ToNumber(Default(limit, Num(defaults_limit)))

buildUrlOptsNoOverfetch(o) ==
    LET limit == Default(o.limit, Num(defaults_limit))
        page == Default(o.page, Num(1))
    IN [colors |-> IF o.colors.t = "undefined" THEN defaults_colors ELSE o.colors.v,
        offset |-> calcOffset(page, limit),
        limit |-> ToNumber(limit)]

buildUrlOpts(o) ==
    LET limit == Default(o.limit, Num(defaults_limit))
        page == Default(o.page, Num(1))
    IN [colors |-> IF o.colors.t = "undefined" THEN defaults_colors ELSE o.colors.v,
        offset |-> calcOffset(page, limit),
        limit |-> ToNumber(limit) + 1]

\* buildUrl only merges the parameters onto the endpoint.
buildUrl(o) == buildUrlOpts(o)

\* ------------------------------------------------------ Result Transformer
PrimeColors == <<"red", "blue", "yellow">>

\* Array.prototype.indexOf with strict equality: 0-based index or -1.
indexOf(arr, x) ==
    IF \E i \in 1..Len(arr) : arr[i] = x
    THEN (CHOOSE i \in 1..Len(arr) : arr[i] = x /\ \A j \in 1..(i-1) : arr[j] # x) - 1
    ELSE -1

isPrimeColorAnyCase(color) ==
    indexOf(PrimeColors, color) # -1 \/ color = "Red"

isPrimeColor(color) == indexOf(PrimeColors, color) # -1

\* Array.prototype.slice(0, end).
slice0(arr, end) ==
    LET n == Len(arr)
        k == IF end < 0 THEN Max(n + end, 0) ELSE Min(end, n)
    IN SubSeq(arr, 1, k)

getIds(recs) == [i \in 1..Len(recs) |-> recs[i].id]

\* The record as filterOpenRecs leaves it: open records get isPrimary.
Annotate(r) ==
    IF r.disposition = "open"
    THEN [r EXCEPT !.isPrimary = IF isPrimeColor(r.color) THEN "true" ELSE "false"]
    ELSE r

RECURSIVE filterOpenRecs(_)
filterOpenRecs(recs) ==
    IF recs = <<>> THEN <<>>
    ELSE LET record == Head(recs)
             open == filterOpenRecs(Tail(recs))
         IN IF record.disposition = "open" THEN <<Annotate(record)>> \o open ELSE open

RECURSIVE getClosedPrimeAnyDisposition(_)
getClosedPrimeAnyDisposition(recs) ==
    IF recs = <<>> THEN <<>>
    ELSE LET record == Head(recs)
             rest == getClosedPrimeAnyDisposition(Tail(recs))
         IN IF record.disposition # "open" /\ isPrimeColor(record.color)
            THEN <<record>> \o rest ELSE rest

RECURSIVE getClosedPrime(_)
getClosedPrime(recs) ==
    IF recs = <<>> THEN <<>>
    ELSE LET record == Head(recs)
             rest == getClosedPrime(Tail(recs))
         IN IF record.disposition = "closed" /\ isPrimeColor(record.color)
            THEN <<record>> \o rest ELSE rest

\* A parsed JSON body: an array of records, or a value that is not an array.
ArrayOf(items) == [kind |-> "array", items |-> items]
BodyUndefined == [kind |-> "undefined", items |-> <<>>]
BodyNull == [kind |-> "null", items |-> <<>>]
BodyObject == [kind |-> "object", items |-> <<>>]

\* `records = []` in a parameter list or a destructuring pattern.
DefaultRecords(rv) == IF rv.kind = "undefined" THEN ArrayOf(<<>>) ELSE rv

previousPageOfZeroBased(curPage) == IF curPage = 0 THEN JSNull ELSE Num(curPage - 1)

previousPageOf(curPage) == IF curPage = 1 THEN JSNull ELSE Num(curPage - 1)

nextPageOfStrict(curPage, limit, recs) ==
    IF Len(recs) < limit THEN JSNull ELSE Num(curPage + 1)

nextPageOf(curPage, limit, recs) ==
    IF Len(recs) <= limit THEN JSNull ELSE Num(curPage + 1)

finalRecsOfAll(recs, limit) == recs

finalRecsOf(recs, limit) == slice0(recs, limit)

\* formatFinal throws a TypeError on null (null.length), on a non-array object
\* (records.slice is not a function) and on a null element of the final slice
\* (record.id); an element past the slice is never touched.
formatFinalThrows(limit, rv) ==
    LET r == DefaultRecords(rv)
    IN \/ r.kind \in {"null", "object"}
       \/ /\ r.kind = "array"
          /\ \E i \in 1..Len(finalRecsOf(r.items, limit)) : r.items[i].shape = "null"

formatFinal(curPage, limit, rv) ==
    LET recs == DefaultRecords(rv).items
        finalRecs == finalRecsOf(recs, limit)
    IN [ids |-> getIds(finalRecs),
        open |-> filterOpenRecs(finalRecs),
        closedPrimaryCount |-> Len(getClosedPrime(finalRecs)),
        previousPage |-> previousPageOf(curPage),
        nextPage |-> nextPageOf(curPage, limit, recs)]

\* The caller's array after formatFinal: slice() copies the array, not the
\* records, so the annotation of filterOpenRecs shows in the original.
recordsAfterFormat(limit, rv) ==
    LET r == DefaultRecords(rv)
        k == Len(finalRecsOf(r.items, limit))
    IN ArrayOf([i \in 1..Len(r.items) |->
                  IF i <= k THEN Annotate(r.items[i]) ELSE r.items[i]])

\* ------------------------------------------------------------------ errors
NoError == [name |-> "", message |-> ""]
TypeError == [name |-> "TypeError", message |-> "not a function or null"]
FetchError == [name |-> "FetchError", message |-> "network"]
SyntaxError == [name |-> "SyntaxError", message |-> "Unexpected token"]
Error(msg) == [name |-> "Error", message |-> msg]

\* ------------------------------------------------------------------- state
VARIABLES pc, options, query, requests, response, records, rawRecords,
          formatOpts, error, log, promise, output, transformRuns, transport

vars == <<pc, options, query, requests, response, records, rawRecords,
          formatOpts, error, log, promise, output, transformRuns, transport>>

NoQuery == [colors |-> <<>>, offset |-> 0, limit |-> 0]
NoResponse == [status |-> 0, statusText |-> ""]
NoOptions == [page |-> JSUndefined, limit |-> JSUndefined, colors |-> ColorsUndefined]
NoFormatOpts == [curPage |-> 0, limit |-> 0]
NoPage == [ids |-> <<>>, open |-> <<>>, closedPrimaryCount |-> 0,
           previousPage |-> JSNull, nextPage |-> JSNull]
Pending == [state |-> "pending", value |-> "none", settles |-> 0]

\* ------------------------------------------------------------------ inputs
Colors == {"red", "blue", "yellow", "brown", "Red"}
Dispositions == {"open", "closed", "pending"}
ColorSeq == <<"red", "brown", "blue", "Red", "yellow">>
DispSeq == <<"open", "closed", "pending">>
MaxShift == 2

\* Ids are distinct within a page and not in ascending order.
IdAt(i) == ((i * 7) % 13) + 1

Rec(id, c, d) ==
    [id |-> id, color |-> c, disposition |-> d, isPrimary |-> "absent", shape |-> "object"]
NullRec ==
    [id |-> 0, color |-> "", disposition |-> "", isPrimary |-> "absent", shape |-> "null"]

PageVals == {JSUndefined, JSNull} \cup {Num(n) : n \in (-1)..MaxPage}
LimitVals == {JSUndefined} \cup {Num(n) : n \in 0..MaxOptLimit}
ColorVals == {ColorsUndefined, ColorsOf(<<"red">>), ColorsOf(<<"blue", "green">>)}
OptionVals == [page : PageVals, limit : LimitVals, colors : ColorVals]

Statuses == {199, 200, 204, 299, 300, 404, 500}
StatusTextOf(st) ==
    CASE st = 200 -> "OK"
      [] st = 204 -> "No Content"
      [] st = 404 -> "Not Found"
      [] st = 500 -> "Internal Server Error"
      [] OTHER -> "Unassigned"

\* A response of n records; position p (0 for none) holds a JSON null.
RespItems(n, s, p) ==
    [i \in 1..n |->
        IF i = p THEN NullRec
        ELSE Rec(IdAt(i), ColorSeq[((i + s) % 5) + 1], DispSeq[((i + s) % 3) + 1])]

NullPositions(n) == {0} \cup ({1, defaults_limit, defaults_limit + 1} \cap (1..n))

Bodies ==
    {BodyUndefined, BodyNull, BodyObject}
    \cup {ArrayOf(RespItems(n, s, p)) :
            <<n, s, p>> \in {t \in (0..MaxRespLen) \X (0..MaxShift) \X (0..(defaults_limit + 1)) :
                               t[3] \in NullPositions(t[1])}}

\* -------------------------------------------------------------------- Init
Init ==
    /\ pc = "idle"
    /\ options = NoOptions
    /\ query = NoQuery
    /\ requests = 0
    /\ response = NoResponse
    /\ records = BodyUndefined
    /\ rawRecords = BodyUndefined
    /\ formatOpts = NoFormatOpts
    /\ error = NoError
    /\ log = <<>>
    /\ promise = Pending
    /\ output = NoPage
    /\ transformRuns = 0
    /\ transport = "none"

\* ----------------------------------------------------------------- actions
\* retrieve(options): build the url and call getRecords, whose executor calls
\* fetch(url) at once.
Retrieve(o) ==
    /\ pc = "idle"
    /\ options' = o
    /\ query' = buildUrl(o)
    /\ requests' = requests + 1
    /\ transport' = "pending"
    /\ pc' = "fetching"
    /\ UNCHANGED <<response, records, rawRecords, formatOpts, error, log, promise,
                   output, transformRuns>>

\* The transport answers with a status line.
FetchResolves(st) ==
    /\ pc = "fetching"
    /\ response' = [status |-> st, statusText |-> StatusTextOf(st)]
    /\ pc' = "verifyStatus"
    /\ UNCHANGED <<options, query, requests, records, rawRecords, formatOpts, error,
                   log, promise, output, transformRuns, transport>>

\* The transport fails: fetch(url) rejects and the chain skips to .catch.
FetchRejects ==
    /\ pc = "fetching"
    /\ error' = FetchError
    /\ transport' = "failed"
    /\ pc' = "getRecordsCatch"
    /\ UNCHANGED <<options, query, requests, response, records, rawRecords, formatOpts,
                   log, promise, output, transformRuns>>

statusOkUpTo300(st) == st >= 200 /\ st <= 300

statusOk(st) == st >= 200 /\ st < 300

verifyStatus ==
    /\ pc = "verifyStatus"
    /\ IF statusOk(response.status)
       THEN /\ pc' = "json"
            /\ UNCHANGED <<error, transport>>
       ELSE /\ error' = Error(response.statusText)
            /\ transport' = "failed"
            /\ pc' = "getRecordsCatch"
    /\ UNCHANGED <<options, query, requests, response, records, rawRecords, formatOpts,
                   log, promise, output, transformRuns>>

\* response.json() settles: a parsed value, or a parse failure.
JsonResolves(b) ==
    /\ pc = "json"
    /\ rawRecords' = b
    /\ records' = b
    /\ transport' = "ok"
    /\ pc' = "getRecordsThen"
    /\ UNCHANGED <<options, query, requests, response, formatOpts, error, log, promise,
                   output, transformRuns>>

JsonRejects ==
    /\ pc = "json"
    /\ error' = SyntaxError
    /\ transport' = "failed"
    /\ pc' = "getRecordsCatch"
    /\ UNCHANGED <<options, query, requests, response, records, rawRecords, formatOpts,
                   log, promise, output, transformRuns>>

\* getRecords, .then((records = []) => resolve(records)).
getRecordsThen ==
    /\ pc = "getRecordsThen"
    /\ records' = DefaultRecords(records)
    /\ pc' = "retrieveThen"
    /\ UNCHANGED <<options, query, requests, response, rawRecords, formatOpts, error,
                   log, promise, output, transformRuns, transport>>

\* getRecords, .catch((error) => reject(error)).
getRecordsCatch ==
    /\ pc = "getRecordsCatch"
    /\ pc' = "retrieveCatch"
    /\ UNCHANGED <<options, query, requests, response, records, rawRecords, formatOpts,
                   error, log, promise, output, transformRuns, transport>>

curPageOf(o) == IF Truthy(o.page) THEN o.page.v ELSE 1

\* retrieve, .then: retrievePromise runs formatFinal inside try/catch and
\* resolves with its result or rejects with what it threw.
retrieveThen ==
    /\ pc = "retrieveThen"
    /\ LET curPage == curPageOf(options)
           limit == defaults_limit
           recs == DefaultRecords(records)
       IN /\ formatOpts' = [curPage |-> curPage, limit |-> limit]
          /\ transformRuns' = transformRuns + 1
          /\ IF formatFinalThrows(limit, recs)
             THEN /\ error' = TypeError
                  /\ pc' = "retrieveCatch"
                  /\ UNCHANGED <<records, output, promise>>
             ELSE /\ output' = formatFinal(curPage, limit, recs)
                  /\ records' = recordsAfterFormat(limit, recs)
                  /\ promise' = [state |-> "fulfilled", value |-> "page",
                                 settles |-> promise.settles + 1]
                  /\ pc' = "done"
                  /\ UNCHANGED error
    /\ UNCHANGED <<options, query, requests, response, rawRecords, log, transport>>

retrieveCatchRethrow ==
    /\ pc = "retrieveCatch"
    /\ log' = Append(log, error)
    /\ promise' = [state |-> "rejected", value |-> "error",
                   settles |-> promise.settles + 1]
    /\ pc' = "done"
    /\ UNCHANGED <<options, query, requests, response, records, rawRecords, formatOpts,
                   error, output, transformRuns, transport>>

retrieveCatchRetry ==
    /\ pc = "retrieveCatch"
    /\ log' = Append(log, error)
    /\ requests' = requests + 1
    /\ transport' = "pending"
    /\ pc' = "fetching"
    /\ UNCHANGED <<options, query, response, records, rawRecords, formatOpts,
                   error, promise, output, transformRuns>>

\* retrieve, .catch: log the error and return nothing.
retrieveCatch ==
    /\ pc = "retrieveCatch"
    /\ log' = Append(log, error)
    /\ promise' = [state |-> "fulfilled", value |-> "undefined",
                   settles |-> promise.settles + 1]
    /\ pc' = "done"
    /\ UNCHANGED <<options, query, requests, response, records, rawRecords, formatOpts,
                   error, output, transformRuns, transport>>

Next ==
    \/ \E o \in OptionVals : Retrieve(o)
    \/ \E st \in Statuses : FetchResolves(st)
    \/ FetchRejects
    \/ verifyStatus
    \/ \E b \in Bodies : JsonResolves(b)
    \/ JsonRejects
    \/ getRecordsThen
    \/ getRecordsCatch
    \/ retrieveThen
    \/ retrieveCatch

Spec == Init /\ [][Next]_vars

\* The callbacks of a settled promise are queued and run; the transport is
\* under no obligation to answer.
Callbacks ==
    verifyStatus \/ getRecordsThen \/ getRecordsCatch \/ retrieveThen \/ retrieveCatch

FairSpec == Spec /\ WF_vars(Callbacks)

\* ------------------------------------------- formatFinal as a pure function
CurPages == ((-1)..MaxPage) \ {0}
Limits == 0..MaxLimit
\* The records array whose i-th record has color f[i][1], disposition f[i][2].
RecordsOf(f) == [i \in DOMAIN f |-> Rec(IdAt(i), f[i][1], f[i][2])]

FormatInit ==
    /\ pc = "formatFinal"
    /\ formatOpts \in [curPage : CurPages, limit : Limits]
    /\ \E n \in 0..MaxLen : \E f \in [1..n -> Colors \X Dispositions] :
           rawRecords = ArrayOf(RecordsOf(f))
    /\ records = rawRecords
    /\ options = NoOptions
    /\ query = NoQuery
    /\ requests = 0
    /\ response = NoResponse
    /\ error = NoError
    /\ log = <<>>
    /\ promise = Pending
    /\ output = NoPage
    /\ transformRuns = 0
    /\ transport = "none"

\* formatFinal({curPage, limit, records}) on well-formed records.
FormatFinalCall ==
    /\ pc = "formatFinal"
    /\ output' = formatFinal(formatOpts.curPage, formatOpts.limit, records)
    /\ records' = recordsAfterFormat(formatOpts.limit, records)
    /\ transformRuns' = transformRuns + 1
    /\ pc' = "formatted"
    /\ UNCHANGED <<options, query, requests, response, rawRecords, formatOpts, error,
                   log, promise, transport>>

FormatNext == FormatFinalCall

FormatSpec == FormatInit /\ [][FormatNext]_vars

\* ------------------------------------------------------------------ claims
\* What the claims say of formatFinal, stated on the input as it was given.
RawItems == rawRecords.items
SliceLen == Min(Len(RawItems), formatOpts.limit)
Primary == {"red", "blue", "yellow"}
OpenIdx == {i \in 1..SliceLen : RawItems[i].disposition = "open"}
ClosedPrimaryIdx ==
    {i \in 1..SliceLen : RawItems[i].disposition = "closed" /\ RawItems[i].color \in Primary}
\* The index in the input of the j-th open record of the slice.
NthOpen(j) == CHOOSE i \in OpenIdx : Cardinality({m \in OpenIdx : m <= i}) = j

\* C1: whatever fails in the chain (transport, status, parse, or a throw of
\* the transform on a malformed body), the promise of retrieve is never
\* rejected, and it resolves with undefined after one diagnostic was logged.
ChainFailed ==
    \/ transport = "failed"
    \/ /\ transport = "ok"
       /\ \/ rawRecords.kind \in {"null", "object"}
          \/ \E i \in 1..Min(Len(rawRecords.items), 10) : rawRecords.items[i].shape = "null"
C1_FailureResolvesUndefined ==
    /\ promise.state # "rejected"
    /\ promise.value = "undefined" => Len(log) = 1
    /\ (pc = "done" /\ ChainFailed) =>
          /\ promise.state = "fulfilled"
          /\ promise.value = "undefined"
          /\ output = NoPage
          /\ Len(log) = 1
          /\ log[1] # NoError
C1_Witness ==
    /\ pc = "done"
    /\ rawRecords.kind = "object"
    /\ promise.value = "undefined"
    /\ log = <<TypeError>>

\* C2: nextPage is curPage + 1 when the records are more than limit, and
\* null when they are limit or fewer.
C2_NextPage ==
    pc = "formatted" =>
        IF Len(RawItems) > formatOpts.limit
        THEN output.nextPage = Num(formatOpts.curPage + 1)
        ELSE output.nextPage = JSNull
C2_Witness ==
    /\ pc = "formatted"
    /\ formatOpts.limit >= 1
    /\ Len(RawItems) = formatOpts.limit + 1
    /\ output.nextPage = Num(formatOpts.curPage + 1)

\* C3: ids, open and closedPrimaryCount come from the first
\* min(records.length, limit) records only: ids is the ids of that slice in
\* order, and a record past the slice is in neither ids nor open, is not
\* counted and is left as it was.
C3_OnlyFinalSlice ==
    pc = "formatted" =>
        /\ Len(output.ids) = SliceLen
        /\ \A i \in 1..SliceLen : output.ids[i] = RawItems[i].id
        /\ \A j \in 1..Len(output.open) :
               \E i \in 1..SliceLen : output.open[j].id = RawItems[i].id
        /\ output.closedPrimaryCount <= SliceLen
        /\ output.closedPrimaryCount = Cardinality(ClosedPrimaryIdx)
        /\ \A i \in (SliceLen + 1)..Len(RawItems) :
               /\ \A j \in 1..Len(output.ids) : output.ids[j] # RawItems[i].id
               /\ \A j \in 1..Len(output.open) : output.open[j].id # RawItems[i].id
               /\ records.items[i] = RawItems[i]
C3_Witness ==
    /\ pc = "formatted"
    /\ formatOpts.limit >= 1
    /\ Len(RawItems) = formatOpts.limit + 1
    /\ RawItems[Len(RawItems)].disposition = "open"
    /\ RawItems[Len(RawItems)].color = "red"
    /\ Len(output.ids) = formatOpts.limit

\* C4: open is the records of the final slice whose disposition is "open",
\* in their original order, each with isPrimary true exactly when its color
\* is red, blue or yellow (case-sensitive).
C4_OpenRecords ==
    pc = "formatted" =>
        /\ Len(output.open) = Cardinality(OpenIdx)
        /\ \A j \in 1..Len(output.open) :
               LET r == RawItems[NthOpen(j)]
                   o == output.open[j]
               IN /\ o.id = r.id
                  /\ o.color = r.color
                  /\ o.disposition = "open"
                  /\ o.isPrimary \in {"true", "false"}
                  /\ o.isPrimary = "true" <=> o.color \in Primary
C4_Witness ==
    /\ pc = "formatted"
    /\ Len(output.open) >= 2
    /\ Len(RawItems) > SliceLen
    /\ \E j \in 1..Len(output.open) :
           output.open[j].color = "Red" /\ output.open[j].isPrimary = "false"
    /\ \E j \in 1..Len(output.open) :
           output.open[j].color = "yellow" /\ output.open[j].isPrimary = "true"

\* C5: closedPrimaryCount is the number of records of the final slice that
\* are "closed" and red, blue or yellow; those records are not in open and
\* get no isPrimary.
C5_ClosedPrimaryCount ==
    pc = "formatted" =>
        /\ output.closedPrimaryCount = Cardinality(ClosedPrimaryIdx)
        /\ \A i \in ClosedPrimaryIdx :
               /\ \A j \in 1..Len(output.open) : output.open[j].id # RawItems[i].id
               /\ records.items[i].isPrimary = "absent"
C5_Witness ==
    /\ pc = "formatted"
    /\ output.closedPrimaryCount = 1
    /\ Len(output.open) = 1
    /\ Len(RawItems) > formatOpts.limit
    /\ RawItems[Len(RawItems)].disposition = "closed"
    /\ RawItems[Len(RawItems)].color = "blue"

\* C6: previousPage is null exactly when curPage is 1, and curPage - 1
\* otherwise.
C6_PreviousPage ==
    pc = "formatted" =>
        /\ output.previousPage = JSNull <=> formatOpts.curPage = 1
        /\ formatOpts.curPage # 1 => output.previousPage = Num(formatOpts.curPage - 1)
C6_Witness ==
    /\ pc = "formatted"
    /\ formatOpts.curPage = 1
    /\ output.previousPage = JSNull

\* C7: for page >= 1 the offset is (page - 1) * limit; the limit asked of the
\* endpoint is limit + 1 whatever the page; with page and limit omitted the
\* offset is 0 and the limit asked is 11.
OptLimit == IF options.limit.t = "undefined" THEN 10 ELSE options.limit.v
C7_OffsetAndOverfetch ==
    pc # "idle" =>
        /\ query.limit = OptLimit + 1
        /\ (options.page.t = "number" /\ options.page.v >= 1) =>
               query.offset = (options.page.v - 1) * OptLimit
        /\ (options.page.t = "undefined" /\ options.limit.t = "undefined") =>
               (query.offset = 0 /\ query.limit = 11)
C7_Witness ==
    /\ pc = "fetching"
    /\ options.page = Num(3)
    /\ options.limit = Num(2)
    /\ query.offset = 4
    /\ query.limit = 3

\* C8: getRecords resolves only on a status in [200,300), with the parsed
\* body, or an empty array for an absent one; on another status it rejects
\* with an Error carrying statusText; a transport or parse failure is
\* rejected onward as it is.
GotStatus == response # NoResponse
GoodStatus == response.status >= 200 /\ response.status <= 299
C8_GetRecords ==
    /\ pc = "retrieveThen" =>
          /\ GotStatus /\ GoodStatus
          /\ transport = "ok"
          /\ records = IF rawRecords.kind = "undefined" THEN ArrayOf(<<>>) ELSE rawRecords
    /\ (pc = "retrieveCatch" /\ transformRuns = 0) =>
          /\ transport = "failed"
          /\ (GotStatus /\ ~GoodStatus) => error = Error(response.statusText)
          /\ (GotStatus /\ GoodStatus) => error = SyntaxError
          /\ ~GotStatus => error = FetchError
C8_Witness ==
    /\ pc = "retrieveThen"
    /\ response.status = 299
    /\ rawRecords = BodyUndefined
    /\ records = ArrayOf(<<>>)

\* C9: a retrieve call issues one GET and never a second; the transform runs
\* at most once and only after a successful response; the promise settles at
\* most once, and once the transport has settled it does settle.
TransportSettled == transport \in {"ok", "failed"}
C9_Safety ==
    /\ requests <= 1
    /\ pc # "idle" => requests = 1
    /\ promise.settles <= 1
    /\ transformRuns <= 1
    /\ transformRuns = 1 => (transport = "ok" /\ GoodStatus)
    /\ transport = "failed" => transformRuns = 0
    /\ pc = "done" <=> promise.settles = 1
C9_OneRequestOneSettle ==
    /\ []C9_Safety
    /\ TransportSettled ~> (promise.settles = 1)
C9_Witness ==
    /\ pc = "done"
    /\ transport = "failed"
    /\ response.status = 500
    /\ requests = 1
    /\ promise.settles = 1

\* C10: the query sent and the transform agree on page and page size: the
\* offset sent is (curPage - 1) * L and the limit sent is L + 1, for the
\* curPage and L that retrieve hands to formatFinal.
C10_QueryMatchesTransform ==
    transformRuns > 0 =>
        /\ query.offset = (formatOpts.curPage - 1) * formatOpts.limit
        /\ query.limit = formatOpts.limit + 1

====
